---- MODULE Spec2Model ----
(***************************************************************************)
(* cutting.py: candidate page layouts on a rows x columns grid.            *)
(*                                                                         *)
(* Spec      a caller runs fast_verify and then find_solution on one       *)
(*           combination (layout) and one page.                            *)
(* SpecPipe  a caller drives generate_tile_orders on a catalog (articles). *)
(*                                                                         *)
(* A grid is a function from cells <<row, col>> (0-based, as in numpy) to  *)
(* 1 (free) or -1 (full).                                                  *)
(***************************************************************************)
EXTENDS Integers, Sequences, FiniteSets

\* ------------------------------------------------------------- bounds
\* articles in a combination handed to fast_verify and find_solution
MaxArticles == 3
\* page sizes: 1 .. MaxPageRows rows, 1 .. MaxPageCols columns
MaxPageRows == 2
MaxPageCols == 3
\* a variant occupies at most this many cells: cols * (rows + gap)
MaxVariantArea == 2
\* the summed area of a combination
MaxTotalArea == 6
\* the catalog handed to generate_tile_orders
MaxCatalogArticles == 2
MaxVariantsPerArticle == 2

VARIABLES
    page_rows, page_columns,  \* the page: the rows and columns arguments
    layout,          \* the combination handed to fast_verify and find_solution
    accepted,        \* what fast_verify gave: "True", "False", "ValueError" ("none": not run)
    pc,              \* where find_solution is
    ret,             \* find_solution's list of pending states
    solutions,       \* find_solution's list of solutions
    articles,        \* the catalog handed to generate_tile_orders
    ppc,             \* where generate_tile_orders is
    pending,         \* the combinations product(*articles) has yet to give
    sorted_layouts,  \* what generate_layouts returned
    count,           \* generate_tile_orders' count
    groups,          \* what generate_tile_orders yielded
    raised           \* the call that raised TypeError ("none": no call did)

vars == <<page_rows, page_columns, layout, accepted, pc, ret, solutions,
          articles, ppc, pending, sorted_layouts, count, groups, raised>>

solverVars == <<layout, accepted, pc, ret, solutions>>
pipeVars == <<articles, ppc, pending, sorted_layouts, count, groups, raised>>

\* ------------------------------------------------------- numpy helpers
\* matrix[r0:r1, c0:c1]: the cells of the slice; numpy clamps a slice to the array
Slice(matrix, r0, r1, c0, c1) ==
    {cell \in DOMAIN matrix : r0 <= cell[1] /\ cell[1] < r1 /\ c0 <= cell[2] /\ cell[2] < c1}

\* np.where(matrix == 1): the free cells
FreeCells(matrix) == {cell \in DOMAIN matrix : matrix[cell] = 1}

\* row-major order of two cells (the order np.where lists them in)
RowMajorLeq(a, b) == a[1] < b[1] \/ (a[1] = b[1] /\ a[2] <= b[2])

\* the first cell of a non-empty set in row-major order
FirstRowMajor(cells) == CHOOSE a \in cells : \A b \in cells : RowMajorLeq(a, b)

\* p[row:row + h, :] = -1
SetRegionWholeRows(matrix, row, col, h, w) ==
    [cell \in DOMAIN matrix |->
        IF row <= cell[1] /\ cell[1] < row + h THEN -1 ELSE matrix[cell]]

\* p[row:row + h, col:col + w] = -1
SetRegion(matrix, row, col, h, w) ==
    [cell \in DOMAIN matrix |->
        IF cell \in Slice(matrix, row, row + h, col, col + w) THEN -1 ELSE matrix[cell]]

\* ------------------------------------------------------ cutting.py
\* rows[-1], columns[-1]
find_empty_cel_last(matrix) ==
    CHOOSE a \in FreeCells(matrix) : \A b \in FreeCells(matrix) : RowMajorLeq(b, a)

\* rows[0], columns[0] of np.where(matrix == 1); IndexError when no cell is free
find_empty_cel(matrix) == FirstRowMajor(FreeCells(matrix))

RECURSIVE SumArea(_)
SumArea(dimensions) ==
    IF dimensions = <<>> THEN 0
    ELSE dimensions[1].area + SumArea(Tail(dimensions))

\* True if the summed area is within the page area
validate_area(dimensions, columns, rows) ==
    LET area == SumArea(dimensions)
        page_area == columns * rows
    IN  area <= page_area

add_area(dimensions) == [area |-> SumArea(dimensions), dimensions |-> dimensions]

\* looks at matrix[row, col] alone
validate_step_anchor(row, col, rows, cols, matrix) ==
    Cardinality({cell \in Slice(matrix, row, row + 1, col, col + 1) : matrix[cell] = 1}) = 1

\* True if every cell of matrix[row:row + rows, col:col + cols] is there and free
validate_step(row, col, rows, cols, matrix) ==
    LET free_cels == Cardinality({cell \in Slice(matrix, row, row + rows, col, col + cols) :
                                     matrix[cell] = 1})
    IN  free_cels = rows * cols

create_matrix(rows, columns) == [cell \in (0 .. rows - 1) \X (0 .. columns - 1) |-> 1]

\* one successful iteration of make_step's loop, lines 122-124: the new state
place(parent, dim, row, column) ==
    [ids    |-> Append(parent.ids, dim.id),
     coords |-> Append(parent.coords,
                       [id |-> dim.id, col |-> column, row |-> row, cols |-> dim.cols]),
     page   |-> SetRegion(parent.page, row, column, dim.rows + dim.gap, dim.cols)]

\* returns at the first article that fits
make_step_first(parent, dimensions) ==
    IF dimensions = <<>> THEN <<>>
    ELSE LET cell == find_empty_cel(parent.page)
             fits(dim) == validate_step(cell[1], cell[2], dim.rows + dim.gap, dim.cols,
                                        parent.page)
             fitting == SelectSeq(dimensions, fits)
         IN  IF fitting = <<>> THEN <<>>
             ELSE <<place(parent, fitting[1], cell[1], cell[2])>>

\* the list of new states, one for each article that fits at the first free cell
make_step(parent, dimensions) ==
    IF dimensions = <<>> THEN <<>>
    ELSE LET cell == find_empty_cel(parent.page)
             fits(dim) == validate_step(cell[1], cell[2], dim.rows + dim.gap, dim.cols,
                                        parent.page)
             fitting == SelectSeq(dimensions, fits)
         IN  [i \in 1 .. Len(fitting) |-> place(parent, fitting[i], cell[1], cell[2])]

\* make_step raises IndexError: find_empty_cel runs once per article to place
make_step_raises(parent, dimensions) ==
    dimensions # <<>> /\ FreeCells(parent.page) = {}

\* find_solution, lines 133-147: one root per article, placed at (0, 0)
Roots(lay, rows, columns) ==
    LET page == create_matrix(rows, columns)
        dims == lay.dimensions
    IN  [i \in 1 .. Len(dims) |->
            [ids    |-> <<dims[i].id>>,
             coords |-> <<[id |-> dims[i].id, col |-> 0, row |-> 0, cols |-> dims[i].cols]>>,
             page   |-> SetRegion(page, 0, 0, dims[i].rows + dims[i].gap, dims[i].cols)]]

\* line 151: the articles whose id is not in the state's ids
Unplaced(lay, variant) ==
    LET notin(dim) == \A k \in 1 .. Len(variant.ids) : variant.ids[k] # dim.id
    IN  SelectSeq(lay.dimensions, notin)

\* if len(dims) <= 1
IsCompleteOffByOne(dims) == Len(dims) <= 1

\* line 152: if not dims
IsComplete(dims) == dims = <<>>

\* ret = ret + steps
RequeueOnTop(steps, rest) == rest \o steps

\* line 155: ret = steps + ret
Requeue(steps, rest) == steps \o rest

\* ------------------------------------------------------ fast_verify
RECURSIVE InsertByArea(_, _)
InsertByArea(sorted, dim) ==
    IF sorted = <<>> THEN <<dim>>
    ELSE IF dim.area < sorted[1].area THEN <<dim>> \o sorted
    ELSE <<sorted[1]>> \o InsertByArea(Tail(sorted), dim)

\* sorted(dims, key=lambda k: k['area']): ascending and stable
RECURSIVE SortedByArea(_)
SortedByArea(dims) ==
    IF dims = <<>> THEN <<>>
    ELSE InsertByArea(SortedByArea(SubSeq(dims, 1, Len(dims) - 1)), dims[Len(dims)])

Reversed(seq) == [i \in 1 .. Len(seq) |-> seq[Len(seq) + 1 - i]]

\* scipy.signal.correlate(..., 'valid') raises ValueError unless one array is at
\* least as large as the other in every dimension
CorrelateRaises(rows, columns, h, w) ==
    LET ok1 == rows >= h /\ columns >= w
        ok2 == h >= rows /\ w >= columns
    IN  ~(ok1 \/ ok2)

\* scipy.signal.correlate(page, article_area, 'valid') against an all-ones
\* h x w article: the map from output index to score. With the page at least as
\* large, the score at <<r, c>> is the sum of the page under the article anchored
\* there; with the article larger (scipy swaps the inputs), every score is the
\* sum of the whole page.
Correlate(page, rows, columns, h, w) ==
    LET ok1 == rows >= h /\ columns >= w
        sum(cells) == Cardinality({c \in cells : page[c] = 1})
                      - Cardinality({c \in cells : page[c] = -1})
    IN  IF ok1
        THEN [pos \in (0 .. rows - h) \X (0 .. columns - w) |->
                 sum(Slice(page, pos[1], pos[1] + h, pos[2], pos[2] + w))]
        ELSE [pos \in (0 .. h - rows) \X (0 .. w - columns) |-> sum(DOMAIN page)]

\* lines 163-175: the loop over the articles, largest area first
RECURSIVE VerifyLoop(_, _, _, _)
VerifyLoop(page, dimensions, page_rows_, page_columns_) ==
    IF dimensions = <<>> THEN "True"
    ELSE LET dim == dimensions[1]
             h == dim.rows + dim.gap
             max_peak == h * dim.cols
         IN  IF CorrelateRaises(page_rows_, page_columns_, h, dim.cols) THEN "ValueError"
             ELSE LET c == Correlate(page, page_rows_, page_columns_, h, dim.cols)
                      peaks == {pos \in DOMAIN c : c[pos] = max_peak}
                  IN  IF peaks = {} THEN "False"
                      ELSE LET at == FirstRowMajor(peaks)
                           IN  VerifyLoop(SetRegion(page, at[1], at[2], h, dim.cols),
                                          Tail(dimensions), page_rows_, page_columns_)

fast_verify(lay, page_rows_, page_columns_) ==
    VerifyLoop(create_matrix(page_rows_, page_columns_),
               Reversed(SortedByArea(lay.dimensions)), page_rows_, page_columns_)


\* ------------------------------------------------- generate_layouts
\* itertools.product(*articles): one variant per article, the last article's
\* variants varying fastest
RECURSIVE Product(_)
RECURSIVE PrependEach(_, _)
RECURSIVE ForEachVariant(_, _)
PrependEach(dim, tails) ==
    IF tails = <<>> THEN <<>>
    ELSE <<(<<dim>> \o tails[1])>> \o PrependEach(dim, Tail(tails))
ForEachVariant(variants, tails) ==
    IF variants = <<>> THEN <<>>
    ELSE PrependEach(variants[1], tails) \o ForEachVariant(Tail(variants), tails)
Product(arts) ==
    IF arts = <<>> THEN << <<>> >>
    ELSE ForEachVariant(arts[1], Product(Tail(arts)))

\* ------------------------------------------------------------ inputs
Variants ==
    {v \in [cols : 1 .. MaxVariantArea, rows : 1 .. MaxVariantArea,
            gap : 0 .. MaxVariantArea - 1] :
        v.cols * (v.rows + v.gap) <= MaxVariantArea}

\* a variant of the article with this id; area = cols * (rows + gap)
Dim(id, v) ==
    [id |-> id, cols |-> v.cols, rows |-> v.rows, gap |-> v.gap,
     area |-> v.cols * (v.rows + v.gap)]

\* the combinations: one variant for each of 1 .. n articles
Combinations ==
    {d \in UNION {{[i \in 1 .. n |-> Dim(i, f[i])] : f \in [1 .. n -> Variants]} :
                  n \in 1 .. MaxArticles} :
        SumArea(d) <= MaxTotalArea}

\* the catalogs: for each article, the list of its variants
VariantLists == UNION {[1 .. k -> Variants] : k \in 0 .. MaxVariantsPerArticle}

Catalogs ==
    UNION {{[i \in 1 .. n |-> [j \in 1 .. Len(f[i]) |-> Dim(i, f[i][j])]] :
               f \in [1 .. n -> VariantLists]} :
           n \in 1 .. MaxCatalogArticles}

NoLayout == [area |-> 0, dimensions |-> <<>>]

\* ------------------------------------------------------------ Spec
Init ==
    /\ page_rows \in 1 .. MaxPageRows
    /\ page_columns \in 1 .. MaxPageCols
    /\ layout \in {add_area(d) : d \in Combinations}
    /\ accepted = "none"
    /\ pc = "start"
    /\ ret = <<>>
    /\ solutions = <<>>
    /\ articles = <<>>
    /\ ppc = "off"
    /\ pending = <<>>
    /\ sorted_layouts = <<>>
    /\ count = 0
    /\ groups = <<>>
    /\ raised = "none"

\* the caller runs fast_verify(layout, rows, columns)
FastVerify ==
    /\ pc = "start"
    /\ accepted' = fast_verify(layout, page_rows, page_columns)
    /\ pc' = "verified"
    /\ UNCHANGED <<page_rows, page_columns, layout, ret, solutions, pipeVars>>

\* find_solution(layout, rows, columns), lines 130-147
FindSolutionSeed ==
    /\ pc = "verified"
    /\ ret' = Roots(layout, page_rows, page_columns)
    /\ solutions' = <<>>
    /\ pc' = "while"
    /\ UNCHANGED <<page_rows, page_columns, layout, accepted, pipeVars>>

\* one iteration of the while loop, lines 148-155
FindSolutionIter ==
    /\ pc = "while"
    /\ ret # <<>>
    /\ LET variant == ret[Len(ret)]
           rest == SubSeq(ret, 1, Len(ret) - 1)
           dims == Unplaced(layout, variant)
       IN  IF make_step_raises(variant, dims)
           THEN /\ pc' = "IndexError"
                /\ ret' = rest
                /\ solutions' = IF IsComplete(dims) THEN Append(solutions, variant)
                                ELSE solutions
           ELSE /\ solutions' = IF IsComplete(dims) THEN Append(solutions, variant)
                                ELSE solutions
                /\ ret' = Requeue(make_step(variant, dims), rest)
                /\ UNCHANGED pc
    /\ UNCHANGED <<page_rows, page_columns, layout, accepted, pipeVars>>

\* line 156: return solutions
FindSolutionReturn ==
    /\ pc = "while"
    /\ ret = <<>>
    /\ pc' = "returned"
    /\ UNCHANGED <<page_rows, page_columns, layout, accepted, ret, solutions, pipeVars>>

Next == FastVerify \/ FindSolutionSeed \/ FindSolutionIter \/ FindSolutionReturn

Spec == Init /\ [][Next]_vars

\* -------------------------------------------------------- SpecPipe
InitPipe ==
    /\ page_rows \in 1 .. MaxPageRows
    /\ page_columns \in 1 .. MaxPageCols
    /\ articles \in Catalogs
    /\ ppc = "start"
    /\ pending = <<>>
    /\ sorted_layouts = <<>>
    /\ count = 0
    /\ groups = <<>>
    /\ raised = "none"
    /\ layout = NoLayout
    /\ accepted = "none"
    /\ pc = "off"
    /\ ret = <<>>
    /\ solutions = <<>>

\* generate_tile_orders(articles, rows, columns): the call makes the generator
\* and runs none of its body
GenerateTileOrdersCall ==
    /\ ppc = "start"
    /\ ppc' = "created"
    /\ UNCHANGED <<page_rows, page_columns, articles, pending, sorted_layouts, count,
                   groups, raised, solverVars>>

\* the first next(): line 185 enters generate_layouts, whose lines 93-94 build
\* the lazy filter and map over product(*articles)
GenerateLayoutsCall ==
    /\ ppc = "created"
    /\ pending' = Product(articles)
    /\ ppc' = "sorted"
    /\ UNCHANGED <<page_rows, page_columns, articles, sorted_layouts, count, groups,
                   raised, solverVars>>

\* lines 95-96: sorted() drains the map. filter hands validate_area the first
\* combination as its only argument; validate_area(dimensions, columns, rows)
\* has three parameters and no defaults, so the call raises TypeError, which
\* leaves generate_layouts and ends the generator. With nothing to drain,
\* sorted() gives an empty list and generate_layouts returns.
GenerateLayoutsSorted ==
    /\ ppc = "sorted"
    /\ IF pending = <<>>
       THEN /\ sorted_layouts' = Reversed(SortedByArea(<<>>))
            /\ ppc' = "layouts"
            /\ UNCHANGED <<pending, raised>>
       ELSE /\ pending' = Tail(pending)
            /\ raised' = "validate_area"
            /\ ppc' = "TypeError"
            /\ UNCHANGED sorted_layouts
    /\ UNCHANGED <<page_rows, page_columns, articles, count, groups, solverVars>>

\* lines 186-187: count = 0, then generator_fast_verify(layouts, rows, columns);
\* generator_fast_verify(layouts) has one parameter, so the call raises TypeError
\* and ends the generator before the loop body (lines 188-191) runs
GeneratorFastVerifyCall ==
    /\ ppc = "layouts"
    /\ count' = 0
    /\ raised' = "generator_fast_verify"
    /\ ppc' = "TypeError"
    /\ UNCHANGED <<page_rows, page_columns, articles, pending, sorted_layouts, groups,
                   solverVars>>

NextPipe ==
    \/ GenerateTileOrdersCall
    \/ GenerateLayoutsCall
    \/ GenerateLayoutsSorted
    \/ GeneratorFastVerifyCall

SpecPipe == InitPipe /\ [][NextPipe]_vars

\* ------------------------------------------------------------ claims
Cells == (0 .. page_rows - 1) \X (0 .. page_columns - 1)

NArticles == Len(layout.dimensions)

\* the combination's variant of the article with this id
DimOf(id) ==
    layout.dimensions[CHOOSE i \in 1 .. NArticles : layout.dimensions[i].id = id]

\* the (rows + gap) x cols rectangle of a variant anchored at <<row, col>>
Rect(row, col, dim) ==
    (row .. row + dim.rows + dim.gap - 1) \X (col .. col + dim.cols - 1)

\* the footprint of a placement record
Footprint(rec) == Rect(rec.row, rec.col, DimOf(rec.id))

\* the data model: cols in 1 .. page columns, rows > 0, gap >= 0, total area <= page area
InDataModel ==
    /\ \A i \in 1 .. NArticles :
          /\ layout.dimensions[i].cols \in 1 .. page_columns
          /\ layout.dimensions[i].rows > 0
          /\ layout.dimensions[i].gap >= 0
    /\ layout.area <= page_rows * page_columns

\* C1: in every Solution of find_solution the footprints of the placements, gap
\* rows included, are pairwise disjoint: no cell is covered by two articles.
C1_FootprintsDisjoint ==
    \A s \in 1 .. Len(solutions) :
        \A i, j \in 1 .. Len(solutions[s].coords) :
            i < j => Footprint(solutions[s].coords[i])
                         \cap Footprint(solutions[s].coords[j]) = {}

\* find_solution returned a Solution that places three articles, one with a gap row
C1_Witness ==
    /\ pc = "returned"
    /\ \E s \in 1 .. Len(solutions) :
          /\ Len(solutions[s].coords) = 3
          /\ \E k \in 1 .. 3 : DimOf(solutions[s].coords[k].id).gap > 0

\* C2 as claimed: when fast_verify accepts a combination of the data model,
\* find_solution returns at least one Solution for it.
C2_AcceptedImpliesSolved ==
    (pc = "returned" /\ accepted = "True" /\ InDataModel) => solutions # <<>>

\* C2 as amended: when fast_verify accepts a combination of the data model whose
\* total area equals the page area, find_solution returns at least one Solution.
C2_AcceptedFullPageImpliesSolved ==
    (/\ pc \in {"returned", "IndexError"}
     /\ accepted = "True"
     /\ InDataModel
     /\ layout.area = page_rows * page_columns)
        => (pc = "returned" /\ solutions # <<>>)

\* fast_verify accepted three articles that fill the page and find_solution returned
C2_Witness ==
    /\ pc = "returned"
    /\ accepted = "True"
    /\ InDataModel
    /\ NArticles = 3
    /\ layout.area = page_rows * page_columns
    /\ solutions # <<>>

\* C4: every Solution lists every article id of the combination exactly once, in
\* its ids and in its placement records, and nothing else is recorded as a Solution.
C4_EveryArticleOnce ==
    \A s \in 1 .. Len(solutions) :
        LET sol == solutions[s]
        IN  /\ Len(sol.ids) = NArticles
            /\ Len(sol.coords) = NArticles
            /\ \A i \in 1 .. NArticles :
                  /\ Cardinality({k \in 1 .. Len(sol.ids) :
                                     sol.ids[k] = layout.dimensions[i].id}) = 1
                  /\ Cardinality({k \in 1 .. Len(sol.coords) :
                                     sol.coords[k].id = layout.dimensions[i].id}) = 1

\* find_solution recorded a Solution of a combination of three articles
C4_Witness == pc = "returned" /\ NArticles = 3 /\ solutions # <<>>

\* the orderings of the articles
Orderings == {p \in [1 .. NArticles -> 1 .. NArticles] : \A i, j \in 1 .. NArticles :
                                                             p[i] = p[j] => i = j}

\* the cells taken once the first k articles of an ordering are placed: the first
\* at (0, 0), each later one at the first free cell if its rectangle lies in free
\* cells (ok is FALSE when one does not fit)
RECURSIVE PlacedInOrder(_, _)
PlacedInOrder(p, k) ==
    IF k = 1 THEN [ok |-> TRUE, taken |-> Rect(0, 0, layout.dimensions[p[1]]) \cap Cells]
    ELSE LET prev == PlacedInOrder(p, k - 1)
             free == Cells \ prev.taken
         IN  IF ~prev.ok \/ free = {} THEN [ok |-> FALSE, taken |-> {}]
             ELSE LET at == FirstRowMajor(free)
                      rect == Rect(at[1], at[2], layout.dimensions[p[k]])
                  IN  IF rect \subseteq free
                      THEN [ok |-> TRUE, taken |-> prev.taken \cup rect]
                      ELSE [ok |-> FALSE, taken |-> {}]

ValidOrderings == {p \in Orderings : PlacedInOrder(p, NArticles).ok}

\* C5: find_solution returns one Solution for each ordering of the articles in
\* which the first is placed at (0, 0) and every later one fits in free cells at
\* the first free cell, and no other; two 1x1 articles on a 1x2 page give the two
\* Solutions A, B and B, A; one article gives one Solution, at (0, 0).
C5_SolutionsAreValidOrderings ==
    pc = "returned" =>
        /\ Len(solutions) = Cardinality(ValidOrderings)
        /\ {solutions[s].ids : s \in 1 .. Len(solutions)}
               = {[k \in 1 .. NArticles |-> layout.dimensions[p[k]].id] : p \in ValidOrderings}
        /\ (/\ page_rows = 1 /\ page_columns = 2 /\ NArticles = 2
            /\ \A i \in 1 .. 2 : /\ layout.dimensions[i].cols = 1
                                 /\ layout.dimensions[i].rows = 1
                                 /\ layout.dimensions[i].gap = 0)
              => /\ Len(solutions) = 2
                 /\ {solutions[s].coords : s \in 1 .. 2}
                       = {<<[id |-> a, col |-> 0, row |-> 0, cols |-> 1],
                            [id |-> b, col |-> 1, row |-> 0, cols |-> 1]>> :
                              <<a, b>> \in {<<1, 2>>, <<2, 1>>}}
        /\ NArticles = 1
              => /\ Len(solutions) = 1
                 /\ solutions[1].coords
                       = <<[id |-> layout.dimensions[1].id, col |-> 0, row |-> 0,
                            cols |-> layout.dimensions[1].cols]>>

\* find_solution returned several Solutions of three articles, and fewer than
\* there are orderings: some branch was a dead end
C5_Witness ==
    /\ pc = "returned"
    /\ NArticles = 3
    /\ Len(solutions) > 1
    /\ Len(solutions) < Cardinality(Orderings)

\* the successors the iteration about to run produces
StepsOfNext == make_step(ret[Len(ret)], Unplaced(layout, ret[Len(ret)]))

C9_FreeCellWhenArticlesLeft ==
    InDataModel =>
        /\ pc # "IndexError"
        /\ \A i \in 1 .. Len(ret) :
              Unplaced(layout, ret[i]) # <<>> => FreeCells(ret[i].page) # {}

\* a state with two articles placed and one left is about to be expanded
C9_Witness ==
    /\ InDataModel
    /\ pc = "while"
    /\ ret # <<>>
    /\ Len(ret[Len(ret)].ids) = 2
    /\ NArticles = 3

\* C10: for a combination of the data model, every placement of every Solution
\* has its footprint inside the page.
C10_FootprintsInsidePage ==
    InDataModel =>
        \A s \in 1 .. Len(solutions) :
            \A k \in 1 .. Len(solutions[s].coords) :
                Footprint(solutions[s].coords[k]) \subseteq Cells

\* ---------------------------------------------------- claims, SpecPipe
\* line 189: count < 5
MaxGroups == 5

\* generate_layouts has run: it returned or it raised
GenerateLayoutsRan == ppc \in {"layouts", "TypeError"}

\* C6: generate_layouts gives its combinations, each one variant per article and
\* of summed area within the page area, and never one that exceeds it: the call
\* returns them, it does not raise.
C6_YieldsOnlyWithinPageArea ==
    GenerateLayoutsRan =>
        /\ raised # "validate_area"
        /\ \A i \in 1 .. Len(sorted_layouts) :
              /\ Len(sorted_layouts[i].dimensions) = Len(articles)
              /\ \A k \in 1 .. Len(articles) :
                    \E j \in 1 .. Len(articles[k]) :
                        sorted_layouts[i].dimensions[k] = articles[k][j]
              /\ validate_area(sorted_layouts[i].dimensions, page_columns, page_rows)

\* C7: generate_layouts gives its combinations in descending order of total
\* area, none after one of strictly smaller area, and so generate_tile_orders
\* emits its groups in that order: both run to their end without raising.
C7_YieldsInDescendingArea ==
    /\ GenerateLayoutsRan =>
          /\ raised # "validate_area"
          /\ \A i, j \in 1 .. Len(sorted_layouts) :
                i < j => sorted_layouts[i].area >= sorted_layouts[j].area
    /\ \A i, j \in 1 .. Len(groups) :
          i < j => groups[i][1].area >= groups[j][1].area

\* C3: generate_tile_orders emits at most 5 groups and evaluates exactly the
\* combinations it needs for them: the generator ends only at the fifth group or
\* with every combination pulled and evaluated, never by an error.
C3_PullsExactlyWhatItNeeds ==
    /\ Len(groups) <= MaxGroups
    /\ ppc = "TypeError" =>
          /\ raised = "none"
          /\ Len(groups) < MaxGroups => pending = <<>>

====
